---------------------------- MODULE Spec2Model ----------------------------
(***************************************************************************)
(* A model of pkg/regex/regex.go: a regular expression over literals,      *)
(* concatenation, alternation and grouping is compiled                     *)
(* (preprocess -> postfix -> nfa) into a Thompson automaton, which match   *)
(* simulates on an input string.                                           *)
(*                                                                         *)
(* Strings are sequences of code points (Go ranges over a string rune by   *)
(* rune).  Code points are written as numbers:                             *)
(*   0 = U+0000, 38 = '&', 40 = '(', 41 = ')', 124 = '|',                  *)
(*   97 = 'a', 98 = 'b', 99 = 'c', 100 = 'd', 101 = 'e', 102 = 'f',        *)
(*   103 = 'g'.                                                            *)
(* A Go panic is an outcome of the operation: the two panics preprocess    *)
(* raises by name, and the two run-time panics (an index out of range on   *)
(* an empty stack, a nil pointer dereference).                             *)
(***************************************************************************)
EXTENDS Integers, Sequences, FiniteSets, TLC

(***************************************************************************)
(* Constants of the program                                                *)
(***************************************************************************)
opGroupStart == 40
opGroupEnd == 41
opAnd == 38
opOr == 124

operators == <<opGroupStart, opGroupEnd, opAnd, opOr>>

\* The table with alternation above concatenation.
operatorPrecedenceSwapped == <<opAnd, opOr>>

\* The higher the index, the higher the precedence
operatorPrecedence == <<opOr, opAnd>>

nfaStateKindChar == 0
nfaStateKindSplit == 1
nfaStateKindMatch == 2

\* The nil pointer; automaton states are numbered from 1.
Nil == 0

\* Outcomes
NoErr == "none"
ErrOrMisused == "or misused"
ErrGroupMismatch == "group mismatch"
ErrIndexOutOfRange == "index out of range"
ErrNilDereference == "nil dereference"

(***************************************************************************)
(* isOperator, precedence                                                  *)
(***************************************************************************)
isOperator(char) == \E i \in 1..Len(operators) : operators[i] = char

\* The (0-based) index of char in operatorPrecedence, -1 when it is not there.
precedence(char) ==
    LET hits == {i \in 1..Len(operatorPrecedence) : operatorPrecedence[i] = char}
    IN  IF hits = {} THEN -1
        ELSE (CHOOSE i \in hits : \A j \in hits : j <= i) - 1

(***************************************************************************)
(* preprocess: inserts opAnd in the source string                          *)
(***************************************************************************)
preprocessInit ==
    [result |-> <<>>, groupStackCounter |-> 0, wantsAnd |-> FALSE,
     canOr |-> FALSE, lastOr |-> FALSE, err |-> NoErr]

\* An iteration that, on a group start, leaves wantsAnd as it was.
preprocessCharKeepingAnd(st, char) ==
    IF char = opGroupStart THEN
        [st EXCEPT !.groupStackCounter = st.groupStackCounter + 1,
                   !.result = Append(IF st.wantsAnd THEN Append(st.result, opAnd)
                                                    ELSE st.result, char),
                   !.canOr = FALSE,
                   !.lastOr = FALSE]
    ELSE IF char = opGroupEnd THEN
        IF st.lastOr
        THEN [st EXCEPT !.groupStackCounter = st.groupStackCounter - 1,
                        !.wantsAnd = TRUE, !.canOr = TRUE,
                        !.err = ErrOrMisused]
        ELSE [st EXCEPT !.groupStackCounter = st.groupStackCounter - 1,
                        !.wantsAnd = TRUE,
                        !.canOr = TRUE,
                        !.lastOr = FALSE,
                        !.result = Append(st.result, char)]
    ELSE IF char = opOr THEN
        IF ~st.canOr
        THEN [st EXCEPT !.wantsAnd = FALSE, !.err = ErrOrMisused]
        ELSE [st EXCEPT !.wantsAnd = FALSE,
                        !.canOr = FALSE,
                        !.lastOr = TRUE,
                        !.result = Append(st.result, char)]
    ELSE
        [st EXCEPT !.result = Append(IF st.wantsAnd THEN Append(st.result, opAnd)
                                                    ELSE st.result, char),
                   !.wantsAnd = TRUE,
                   !.canOr = TRUE,
                   !.lastOr = FALSE]

\* One iteration of the loop over the runes of the pattern.
preprocessChar(st, char) ==
    IF char = opGroupStart THEN
        [st EXCEPT !.groupStackCounter = st.groupStackCounter + 1,
                   !.result = Append(IF st.wantsAnd THEN Append(st.result, opAnd)
                                                    ELSE st.result, char),
                   !.wantsAnd = FALSE,
                   !.canOr = FALSE,
                   !.lastOr = FALSE]
    ELSE IF char = opGroupEnd THEN
        IF st.lastOr
        THEN [st EXCEPT !.groupStackCounter = st.groupStackCounter - 1,
                        !.wantsAnd = TRUE, !.canOr = TRUE,
                        !.err = ErrOrMisused]
        ELSE [st EXCEPT !.groupStackCounter = st.groupStackCounter - 1,
                        !.wantsAnd = TRUE,
                        !.canOr = TRUE,
                        !.lastOr = FALSE,
                        !.result = Append(st.result, char)]
    ELSE IF char = opOr THEN
        IF ~st.canOr
        THEN [st EXCEPT !.wantsAnd = FALSE, !.err = ErrOrMisused]
        ELSE [st EXCEPT !.wantsAnd = FALSE,
                        !.canOr = FALSE,
                        !.lastOr = TRUE,
                        !.result = Append(st.result, char)]
    ELSE
        [st EXCEPT !.result = Append(IF st.wantsAnd THEN Append(st.result, opAnd)
                                                    ELSE st.result, char),
                   !.wantsAnd = TRUE,
                   !.canOr = TRUE,
                   !.lastOr = FALSE]

RECURSIVE preprocessLoop(_, _, _)
preprocessLoop(str, i, st) ==
    IF st.err # NoErr \/ i > Len(str) THEN st
    ELSE preprocessLoop(str, i + 1, preprocessChar(st, str[i]))

\* [err, out]: the panic raised (NoErr when none) and the string returned.
preprocess(str) ==
    LET st == preprocessLoop(str, 1, preprocessInit)
    IN  IF st.err # NoErr THEN [err |-> st.err, out |-> <<>>]
        ELSE IF st.groupStackCounter # 0
             THEN [err |-> ErrGroupMismatch, out |-> <<>>]
             ELSE [err |-> NoErr, out |-> st.result]

(***************************************************************************)
(* operatorStack: buf is the stack, its top is the last element            *)
(***************************************************************************)
Empty(buf) == Len(buf) = 0
Peek(buf) == buf[Len(buf)]
Push(buf, x) == Append(buf, x)
Pop(buf) == SubSeq(buf, 1, Len(buf) - 1)

(***************************************************************************)
(* postfix: converts an infix notation into a postfix notation             *)
(***************************************************************************)
\* Group end pops all the operators from the stack until it meets a group
\* start; Peek on an empty stack panics.
RECURSIVE postfixGroupEnd(_)
postfixGroupEnd(st) ==
    IF Empty(st.buf) THEN [st EXCEPT !.err = ErrIndexOutOfRange]
    ELSE IF Peek(st.buf) = opGroupStart THEN [st EXCEPT !.buf = Pop(st.buf)]
    ELSE postfixGroupEnd([st EXCEPT !.result = Append(st.result, Peek(st.buf)),
                                    !.buf = Pop(st.buf)])

\* An operator that pops only the operators of strictly higher precedence.
RECURSIVE postfixOperatorStrict(_, _)
postfixOperatorStrict(st, char) ==
    IF Empty(st.buf) THEN [st EXCEPT !.buf = Push(st.buf, char)]
    ELSE IF precedence(Peek(st.buf)) > precedence(char)
    THEN postfixOperatorStrict([st EXCEPT !.result = Append(st.result, Peek(st.buf)),
                                          !.buf = Pop(st.buf)], char)
    ELSE [st EXCEPT !.buf = Push(st.buf, char)]

\* Other operators pop all the higher or equal precedence operators from the
\* stack before going on the stack.
RECURSIVE postfixOperator(_, _)
postfixOperator(st, char) ==
    IF Empty(st.buf) THEN [st EXCEPT !.buf = Push(st.buf, char)]
    ELSE IF precedence(Peek(st.buf)) >= precedence(char)
    THEN postfixOperator([st EXCEPT !.result = Append(st.result, Peek(st.buf)),
                                    !.buf = Pop(st.buf)], char)
    ELSE [st EXCEPT !.buf = Push(st.buf, char)]

postfixChar(st, char) ==
    IF isOperator(char) THEN
        IF char = opGroupStart THEN [st EXCEPT !.buf = Push(st.buf, char)]
        ELSE IF char = opGroupEnd THEN postfixGroupEnd(st)
        ELSE postfixOperator(st, char)
    ELSE [st EXCEPT !.result = Append(st.result, char)]

RECURSIVE postfixLoop(_, _, _)
postfixLoop(str, i, st) ==
    IF st.err # NoErr \/ i > Len(str) THEN st
    ELSE postfixLoop(str, i + 1, postfixChar(st, str[i]))

\* The final loop: pops and emits all that is left on the stack.
RECURSIVE postfixDrain(_)
postfixDrain(st) ==
    IF Empty(st.buf) THEN st
    ELSE postfixDrain([st EXCEPT !.result = Append(st.result, Peek(st.buf)),
                                 !.buf = Pop(st.buf)])

postfix(str) ==
    LET st == postfixLoop(str, 1, [result |-> <<>>, buf |-> <<>>, err |-> NoErr])
    IN  IF st.err # NoErr THEN [err |-> st.err, out |-> <<>>]
        ELSE [err |-> NoErr, out |-> postfixDrain(st).result]

(***************************************************************************)
(* The automaton.  The memory of nfaState values is a sequence: state k is *)
(* the k-th nfaState allocated; a pointer to a state is its number, a      *)
(* pointer to an out1 field (an arrow of a fragment) is the number of the  *)
(* state that holds the field.                                             *)
(***************************************************************************)
nfaState(char, kind, out1, out2) ==
    [char |-> char, kind |-> kind, out1 |-> out1, out2 |-> out2]

nfaFrag(start, outs) == [start |-> start, outs |-> outs]

\* Hooks up only the first dangling arrow of a fragment.
connectNfaFragFirstOnly(mem, frag, state) ==
    [mem EXCEPT ![frag.outs[1]].out1 = state]

\* Hooks up the dangling arrows of a fragment to the given state.
connectNfaFrag(mem, frag, state) ==
    [k \in 1..Len(mem) |->
        IF \E j \in 1..Len(frag.outs) : frag.outs[j] = k
        THEN [mem[k] EXCEPT !.out1 = state]
        ELSE mem[k]]

\* An iteration whose alternation keeps only the dangling arrows of its
\* first operand.
nfaCharFirstOuts(st, char) ==
    IF char = opAnd THEN
        IF Len(st.buf) < 2 THEN [st EXCEPT !.err = ErrIndexOutOfRange]
        ELSE LET frag2 == Peek(st.buf)
                 frag1 == Peek(Pop(st.buf))
             IN  [st EXCEPT !.mem = connectNfaFrag(st.mem, frag1, frag2.start),
                            !.buf = Push(Pop(Pop(st.buf)),
                                         nfaFrag(frag1.start, frag2.outs))]
    ELSE IF char = opOr THEN
        IF Len(st.buf) < 2 THEN [st EXCEPT !.err = ErrIndexOutOfRange]
        ELSE LET frag2 == Peek(st.buf)
                 frag1 == Peek(Pop(st.buf))
                 state == Len(st.mem) + 1
             IN  [st EXCEPT !.mem = Append(st.mem,
                                nfaState(0, nfaStateKindSplit, frag1.start, frag2.start)),
                            !.buf = Push(Pop(Pop(st.buf)),
                                         nfaFrag(state, frag1.outs))]
    ELSE
        LET state == Len(st.mem) + 1
        IN  [st EXCEPT !.mem = Append(st.mem, nfaState(char, nfaStateKindChar, Nil, Nil)),
                       !.buf = Push(st.buf, nfaFrag(state, <<state>>))]

\* One iteration of the loop over the runes of the postfix string.
\* st = [mem, buf, err]; buf is the fragment stack, Pop of an empty one panics.
nfaChar(st, char) ==
    IF char = opAnd THEN
        IF Len(st.buf) < 2 THEN [st EXCEPT !.err = ErrIndexOutOfRange]
        ELSE LET frag2 == Peek(st.buf)
                 frag1 == Peek(Pop(st.buf))
             IN  [st EXCEPT !.mem = connectNfaFrag(st.mem, frag1, frag2.start),
                            !.buf = Push(Pop(Pop(st.buf)),
                                         nfaFrag(frag1.start, frag2.outs))]
    ELSE IF char = opOr THEN
        IF Len(st.buf) < 2 THEN [st EXCEPT !.err = ErrIndexOutOfRange]
        ELSE LET frag2 == Peek(st.buf)
                 frag1 == Peek(Pop(st.buf))
                 state == Len(st.mem) + 1
             IN  [st EXCEPT !.mem = Append(st.mem,
                                nfaState(0, nfaStateKindSplit, frag1.start, frag2.start)),
                            !.buf = Push(Pop(Pop(st.buf)),
                                         nfaFrag(state, frag1.outs \o frag2.outs))]
    ELSE
        LET state == Len(st.mem) + 1
        IN  [st EXCEPT !.mem = Append(st.mem, nfaState(char, nfaStateKindChar, Nil, Nil)),
                       !.buf = Push(st.buf, nfaFrag(state, <<state>>))]

RECURSIVE nfaLoop(_, _, _)
nfaLoop(str, i, st) ==
    IF st.err # NoErr \/ i > Len(str) THEN st
    ELSE nfaLoop(str, i + 1, nfaChar(st, str[i]))

\* An nfa that hooks the arrows left dangling to the start of the automaton
\* instead of the match state.
nfaInLooping(mem0, str) ==
    LET st == nfaLoop(str, 1, [mem |-> mem0, buf |-> <<>>, err |-> NoErr])
    IN  IF st.err # NoErr
        THEN [err |-> st.err, mem |-> <<>>, start |-> Nil, frags |-> Len(st.buf)]
        ELSE IF Empty(st.buf)
        THEN [err |-> ErrIndexOutOfRange, mem |-> <<>>, start |-> Nil, frags |-> 0]
        ELSE LET result == Peek(st.buf)
                 mem1 == Append(st.mem, nfaState(0, nfaStateKindMatch, Nil, Nil))
             IN  [err |-> NoErr,
                  mem |-> connectNfaFrag(mem1, result, result.start),
                  start |-> result.start,
                  frags |-> Len(st.buf)]

\* nfa run where the states of mem0 are allocated already: the new states
\* take the numbers after them.
\* [err, mem, start, frags]: the panic raised (NoErr when none), the states
\* allocated, the state returned, and the number of fragments on the stack
\* when the postfix string was exhausted.
nfaIn(mem0, str) ==
    LET st == nfaLoop(str, 1, [mem |-> mem0, buf |-> <<>>, err |-> NoErr])
    IN  IF st.err # NoErr
        THEN [err |-> st.err, mem |-> <<>>, start |-> Nil, frags |-> Len(st.buf)]
        ELSE IF Empty(st.buf)
        THEN [err |-> ErrIndexOutOfRange, mem |-> <<>>, start |-> Nil, frags |-> 0]
        ELSE LET result == Peek(st.buf)
                 match == Len(st.mem) + 1
                 mem1 == Append(st.mem, nfaState(0, nfaStateKindMatch, Nil, Nil))
             IN  [err |-> NoErr,
                  mem |-> connectNfaFrag(mem1, result, match),
                  start |-> result.start,
                  frags |-> Len(st.buf)]

\* nfa in a program that has allocated no state yet.
nfa(str) == nfaIn(<<>>, str)


(***************************************************************************)
(* Slices.  A slice value is [buf, len]: the backing array it points into  *)
(* and its length (every slice of match starts at index 0 of its array).   *)
(* bufs maps a backing array to its contents, as far as they were written  *)
(* (make zeroes the array: what was not written is nil); index k of the    *)
(* program is position k + 1 here.  The arrays are made                    *)
(* with capacity 1024, so append writes in place and never reallocates     *)
(* while fewer than 1024 states are listed, which holds for every pattern  *)
(* and input considered here.                                              *)
(***************************************************************************)
\* The two arrays made once and used by every invocation.
SharedBuf(self, k) == <<1, k>>

\* make([]*nfaState, 0, 1024): the k-th array made by invocation self.
NewBuf(self, k) == <<self, k>>

slice(buf, len) == [buf |-> buf, len |-> len]

\* The element at position k of a backing array.
elem(arr, k) == IF k <= Len(arr) THEN arr[k] ELSE Nil

\* append(stateList, state): writes at index len of the backing array.
append(bufs, stateList, state) ==
    LET arr == bufs[stateList.buf]
        at == stateList.len + 1
    IN  [bufs |-> [bufs EXCEPT ![stateList.buf] =
                      [k \in 1..(IF at <= Len(arr) THEN Len(arr) ELSE at) |->
                          IF k = at THEN state ELSE elem(arr, k)]],
         list |-> slice(stateList.buf, at)]

(***************************************************************************)
(* appendState: adds the state to the list of states; if the state is a    *)
(* split, recursively adds its children.  Reading state.kind through a nil *)
(* pointer panics.                                                         *)
(***************************************************************************)
RECURSIVE appendState(_, _, _, _)
appendState(mem, bufs, stateList, state) ==
    IF state = Nil
    THEN [err |-> ErrNilDereference, bufs |-> bufs, list |-> stateList]
    ELSE IF mem[state].kind = nfaStateKindSplit
    THEN LET r == appendState(mem, bufs, stateList, mem[state].out1)
         IN  IF r.err # NoErr THEN r
             ELSE appendState(mem, r.bufs, r.list, mem[state].out2)
    ELSE LET r == append(bufs, stateList, state)
         IN  [err |-> NoErr, bufs |-> r.bufs, list |-> r.list]

(***************************************************************************)
(* match, step by step.  The locals of one invocation:                     *)
(*   pc        "idle", "run", "done" (returned) or "panic"                 *)
(*   str, pos  the input and the position of the rune the outer loop is at *)
(*   idx       the position in currentStates the inner loop is at          *)
(*   currentStates, nextStates   the two slices                            *)
(*   result    "true" or "false" once returned, "none" before              *)
(***************************************************************************)
idleLocals(self) ==
    [pc |-> "idle", str |-> <<>>, pos |-> 0, idx |-> 0,
     currentStates |-> slice(NewBuf(self, 1), 0),
     nextStates |-> slice(NewBuf(self, 2), 0),
     result |-> "none"]

\* Lines 298-301: the two arrays are made, the start state is listed.
matchBegin(mem, bufs, self, nfaStart, str) ==
    LET cur == NewBuf(self, 1)
        nxt == NewBuf(self, 2)
        made == [bufs EXCEPT ![cur] = <<>>, ![nxt] = <<>>]
        r == appendState(mem, made, slice(cur, 0), nfaStart)
    IN  [bufs |-> r.bufs,
         loc |-> [pc |-> IF r.err # NoErr THEN "panic" ELSE "run",
                  str |-> str, pos |-> 1, idx |-> 1,
                  currentStates |-> r.list,
                  nextStates |-> slice(nxt, 0),
                  result |-> "none"]]

\* Lines 304-308, one iteration of the inner loop: the entry at idx is read
\* from the backing array of currentStates (the range expression was
\* evaluated once, so the length is the one currentStates had then).
matchVisit(mem, bufs, loc) ==
    LET state == elem(bufs[loc.currentStates.buf], loc.idx)
        char == loc.str[loc.pos]
    IN  IF state = Nil
        THEN [bufs |-> bufs, loc |-> [loc EXCEPT !.pc = "panic"]]
        ELSE IF mem[state].char = char
        THEN LET r == appendState(mem, bufs, loc.nextStates, mem[state].out1)
             IN  [bufs |-> r.bufs,
                  loc |-> IF r.err # NoErr
                          THEN [loc EXCEPT !.pc = "panic"]
                          ELSE [loc EXCEPT !.nextStates = r.list,
                                           !.idx = loc.idx + 1]]
        ELSE [bufs |-> bufs, loc |-> [loc EXCEPT !.idx = loc.idx + 1]]

\* Lines 310-311: currentStates = nextStates; nextStates = nextStates[:0];
\* both slices now point into the same array.
matchAdvance(bufs, loc) ==
    [bufs |-> bufs,
     loc |-> [loc EXCEPT !.currentStates = loc.nextStates,
                         !.nextStates = slice(loc.nextStates.buf, 0),
                         !.pos = loc.pos + 1,
                         !.idx = 1]]

\* The result taken from the wrong kind: true when a char state is listed.
matchFinishOnChar(mem, bufs, self, loc) ==
    LET arr == bufs[loc.currentStates.buf]
        Ends(k) == elem(arr, k) = Nil \/ mem[elem(arr, k)].kind = nfaStateKindChar
        ends == {k \in 1..loc.currentStates.len : Ends(k)}
        first == IF ends = {} THEN 0 ELSE CHOOSE k \in ends : \A j \in ends : k <= j
    IN  IF first # 0 /\ elem(arr, first) = Nil
        THEN [bufs |-> bufs, loc |-> [loc EXCEPT !.pc = "panic"]]
        ELSE [bufs |-> [bufs EXCEPT ![NewBuf(self, 1)] = <<>>,
                                    ![NewBuf(self, 2)] = <<>>],
              loc |-> [idleLocals(self) EXCEPT
                          !.pc = "done", !.str = loc.str,
                          !.result = IF first # 0 THEN "true" ELSE "false"]]

\* Lines 314-320: the entries are read in order up to the first match state
\* (reading kind through a nil entry panics); the locals and the arrays die
\* with the call.
matchFinish(mem, bufs, self, loc) ==
    LET arr == bufs[loc.currentStates.buf]
        Ends(k) == elem(arr, k) = Nil \/ mem[elem(arr, k)].kind = nfaStateKindMatch
        ends == {k \in 1..loc.currentStates.len : Ends(k)}
        first == IF ends = {} THEN 0 ELSE CHOOSE k \in ends : \A j \in ends : k <= j
    IN  IF first # 0 /\ elem(arr, first) = Nil
        THEN [bufs |-> bufs, loc |-> [loc EXCEPT !.pc = "panic"]]
        ELSE [bufs |-> [bufs EXCEPT ![NewBuf(self, 1)] = <<>>,
                                    ![NewBuf(self, 2)] = <<>>],
              loc |-> [idleLocals(self) EXCEPT
                          !.pc = "done", !.str = loc.str,
                          !.result = IF first # 0 THEN "true" ELSE "false"]]

\* Where an invocation is.
inVisit(loc) ==
    loc.pc = "run" /\ loc.pos <= Len(loc.str) /\ loc.idx <= loc.currentStates.len
inAdvance(loc) ==
    loc.pc = "run" /\ loc.pos <= Len(loc.str) /\ loc.idx > loc.currentStates.len
inFinish(loc) ==
    loc.pc = "run" /\ loc.pos > Len(loc.str)

\* The next step of an invocation that is running.
matchStep(mem, bufs, self, loc) ==
    IF inVisit(loc) THEN matchVisit(mem, bufs, loc)
    ELSE IF inAdvance(loc) THEN matchAdvance(bufs, loc)
    ELSE matchFinish(mem, bufs, self, loc)

RECURSIVE matchRun(_, _, _, _)
matchRun(mem, bufs, self, loc) ==
    IF loc.pc # "run" THEN loc
    ELSE LET r == matchStep(mem, bufs, self, loc)
         IN  matchRun(mem, r.bufs, self, r.loc)

\* match(nfa, str) run from call to return with nothing else running:
\* "true", "false", or "panic".
match(mem, nfaStart, str) ==
    LET own == [b \in {NewBuf(0, 1), NewBuf(0, 2)} |-> <<>>]
        r == matchBegin(mem, own, 0, nfaStart, str)
        loc == matchRun(mem, r.bufs, 0, r.loc)
    IN  IF loc.pc = "panic" THEN "panic" ELSE loc.result


(***************************************************************************)
(* Bounds and input sets                                                   *)
(***************************************************************************)
\* Every pattern of at most this many runes over 'a', 'b', '(', ')', '|'.
MaxPatternLen == 3
\* Every input of at most this many runes over 'a', 'b', and every such
\* input with its last rune replaced by U+0000.
MaxInputLen == 3
\* Inputs of the concurrent invocations: at most this many runes.
MaxConcInputLen == 2

StringsUpTo(alphabet, n) == UNION {[1..k -> alphabet] : k \in 0..n}

\* x(A1|A2|...|An)y as a string.
RECURSIVE JoinOr(_)
JoinOr(alts) ==
    IF Len(alts) = 1 THEN alts[1]
    ELSE alts[1] \o <<opOr>> \o JoinOr(Tail(alts))

GroupPattern(x, alts, y) ==
    x \o <<opGroupStart>> \o JoinOr(alts) \o <<opGroupEnd>> \o y

\* The operands x, y, Ai of the patterns x(A1|...|An)y considered: "a", "ba".
Operands == {<<97>>, <<98, 97>>}

\* a(b|cd|ef)g, the pattern of TestRegex, as x, alternatives, y.
TestCase == [x |-> <<97>>, alts |-> << <<98>>, <<99, 100>>, <<101, 102>> >>,
             y |-> <<103>>]

GroupCases ==
    {[x |-> x, alts |-> alts, y |-> y] :
        x \in Operands, y \in Operands,
        alts \in [1..2 -> Operands] \cup [1..3 -> Operands]}
    \cup {TestCase}

GroupPatterns == {GroupPattern(c.x, c.alts, c.y) : c \in GroupCases}

\* xy|z for literals x, y, z among 'a', 'b', 'c'.
PrecedencePatterns == {<<x, y, opOr, z>> : x \in {97, 98, 99}, y \in {97, 98, 99},
                                            z \in {97, 98, 99}}

\* Alternations in sequence and nested: a(a|b)(b|a), a(a(b|c)|ad), (a|b)(a|b).
NestedPatterns ==
    { <<97, 40, 97, 124, 98, 41, 40, 98, 124, 97, 41>>,
      <<97, 40, 97, 40, 98, 124, 99, 41, 124, 97, 100, 41>>,
      <<40, 97, 124, 98, 41, 40, 97, 124, 98, 41>> }

\* The malformed patterns the documentation names:
\* |ab, a||b, a|, (|a), (ab, ab), and )( .
MalformedPatterns ==
    { <<124, 97, 98>>, <<97, 124, 124, 98>>, <<97, 124>>, <<40, 124, 97, 41>>,
      <<40, 97, 98>>, <<97, 98, 41>>, <<41, 40>> }

Patterns ==
    StringsUpTo({97, 98, 40, 41, 124}, MaxPatternLen)
    \cup GroupPatterns \cup PrecedencePatterns \cup NestedPatterns
    \cup MalformedPatterns

\* The inputs of TestRegex: abg, acdg, aefg, efg, aef, acd, ab, ef.
TestInputs ==
    { <<97, 98, 103>>, <<97, 99, 100, 103>>, <<97, 101, 102, 103>>,
      <<101, 102, 103>>, <<97, 101, 102>>, <<97, 99, 100>>, <<97, 98>>,
      <<101, 102>> }

\* U+0000 is in no pattern here and 'c' in few: an input with either has a
\* code point that does not occur in the pattern.
Inputs ==
    StringsUpTo({97, 98}, MaxInputLen)
    \cup {Append(s, 0) : s \in StringsUpTo({97, 98}, MaxInputLen - 1)}
    \cup StringsUpTo({97, 98, 99}, 2) \cup TestInputs

\* a, a|b, ab|a, a(a|b)(b|a)
ConcPatterns ==
    { <<97>>, <<97, 124, 98>>, <<97, 98, 124, 97>>,
      <<97, 40, 97, 124, 98, 41, 40, 98, 124, 97, 41>> }

ConcInputs == StringsUpTo({0, 97}, MaxConcInputLen)

\* (a|...|a)(b|...|b) with at most this many alternatives in each group.
MaxAlternatives == 4

Repeated(x, n) == [i \in 1..n |-> x]

RepeatedPatterns ==
    {<<opGroupStart>> \o JoinOr(Repeated(<<97>>, n)) \o <<opGroupEnd>>
        \o <<opGroupStart>> \o JoinOr(Repeated(<<98>>, n)) \o <<opGroupEnd>> :
        n \in 1..MaxAlternatives}

ShortInputs == StringsUpTo({97, 98}, MaxConcInputLen)

(***************************************************************************)
(* The state                                                               *)
(***************************************************************************)
VARIABLES
    pattern,  \* the argument of Compile
    stage,    \* how far Compile is: "source", "preprocessed", "postfixed",
              \* "compiled" (returned) or "failed" (panicked)
    tokens,   \* what preprocess returned
    post,     \* what postfix returned
    err,      \* the panic that ended Compile, NoErr when there is none
    mem,      \* the nfaState values allocated
    start,    \* the Regex that Compile returned
    m,        \* the locals of each invocation of Match
    bufs      \* the backing arrays of the slices of the invocations

vars == <<pattern, stage, tokens, post, err, mem, start, m, bufs>>

\* The goroutines that call Match.
Procs == {1, 2}

BufIds == {NewBuf(self, k) : self \in Procs, k \in {1, 2}}

\* An uncaught panic ends the program.
Crashed == stage = "failed" \/ \E self \in Procs : m[self].pc = "panic"

InitWith(pats) ==
    /\ pattern \in pats
    /\ stage = "source"
    /\ tokens = <<>>
    /\ post = <<>>
    /\ err = NoErr
    /\ mem = <<>>
    /\ start = Nil
    /\ m = [self \in Procs |-> idleLocals(self)]
    /\ bufs = [b \in BufIds |-> <<>>]

(***************************************************************************)
(* Compile(str) = nfa(postfix(preprocess(str))), stage by stage            *)
(***************************************************************************)
Preprocess ==
    /\ stage = "source"
    /\ LET r == preprocess(pattern)
       IN  /\ tokens' = r.out
           /\ err' = r.err
           /\ stage' = IF r.err = NoErr THEN "preprocessed" ELSE "failed"
    /\ UNCHANGED <<pattern, post, mem, start, m, bufs>>

Postfix ==
    /\ stage = "preprocessed"
    /\ LET r == postfix(tokens)
       IN  /\ post' = r.out
           /\ err' = r.err
           /\ stage' = IF r.err = NoErr THEN "postfixed" ELSE "failed"
    /\ UNCHANGED <<pattern, tokens, mem, start, m, bufs>>

Nfa ==
    /\ stage = "postfixed"
    /\ LET r == nfa(post)
       IN  /\ mem' = r.mem
           /\ start' = r.start
           /\ err' = r.err
           /\ stage' = IF r.err = NoErr THEN "compiled" ELSE "failed"
    /\ UNCHANGED <<pattern, tokens, post, m, bufs>>

(***************************************************************************)
(* Match(regex, str), step by step, by goroutine self                      *)
(***************************************************************************)
MatchBegin(self, str) ==
    /\ stage = "compiled"
    /\ ~Crashed
    /\ m[self].pc \in {"idle", "done"}
    /\ LET r == matchBegin(mem, bufs, self, start, str)
       IN  /\ bufs' = r.bufs
           /\ m' = [m EXCEPT ![self] = r.loc]
    /\ UNCHANGED <<pattern, stage, tokens, post, err, mem, start>>

\* The locals and arrays after an iteration of the inner loop.
MatchVisitLocals(self) ==
    /\ ~Crashed
    /\ inVisit(m[self])
    /\ LET r == matchVisit(mem, bufs, m[self])
       IN  /\ bufs' = r.bufs
           /\ m' = [m EXCEPT ![self] = r.loc]

\* A matcher that caches, in the state it visits, where its arrow leads past
\* a split (as a matcher that flattens the automaton while it runs would).
MatchVisitFlattening(self) ==
    /\ MatchVisitLocals(self)
    /\ LET state == elem(bufs[m[self].currentStates.buf], m[self].idx)
           to == IF state = Nil THEN Nil ELSE mem[state].out1
       IN  mem' = IF to # Nil /\ mem[to].kind = nfaStateKindSplit
                  THEN [mem EXCEPT ![state].out2 = mem[to].out2]
                  ELSE mem
    /\ UNCHANGED <<pattern, stage, tokens, post, err, start>>

\* A matcher that, visiting a state whose arrow leads to a split, redirects
\* the arrow to the first child of the split.
MatchVisitRedirecting(self) ==
    /\ MatchVisitLocals(self)
    /\ LET state == elem(bufs[m[self].currentStates.buf], m[self].idx)
           to == IF state = Nil THEN Nil ELSE mem[state].out1
       IN  mem' = IF to # Nil /\ mem[to].kind = nfaStateKindSplit
                  THEN [mem EXCEPT ![state].out1 = mem[to].out1]
                  ELSE mem
    /\ UNCHANGED <<pattern, stage, tokens, post, err, start>>

MatchVisit(self) ==
    /\ MatchVisitLocals(self)
    /\ UNCHANGED <<pattern, stage, tokens, post, err, mem, start>>

MatchAdvance(self) ==
    /\ ~Crashed
    /\ inAdvance(m[self])
    /\ LET r == matchAdvance(bufs, m[self])
       IN  /\ bufs' = r.bufs
           /\ m' = [m EXCEPT ![self] = r.loc]
    /\ UNCHANGED <<pattern, stage, tokens, post, err, mem, start>>

MatchFinish(self) ==
    /\ ~Crashed
    /\ inFinish(m[self])
    /\ LET r == matchFinish(mem, bufs, self, m[self])
       IN  /\ bufs' = r.bufs
           /\ m' = [m EXCEPT ![self] = r.loc]
    /\ UNCHANGED <<pattern, stage, tokens, post, err, mem, start>>

(***************************************************************************)
(* Specifications                                                          *)
(***************************************************************************)
\* One goroutine compiles a pattern and then calls Match again and again.
Init == InitWith(Patterns)

Next ==
    \/ Preprocess
    \/ Postfix
    \/ Nfa
    \/ \E str \in Inputs : MatchBegin(1, str)
    \/ MatchVisit(1)
    \/ MatchAdvance(1)
    \/ MatchFinish(1)

Spec == Init /\ [][Next]_vars

\* Two goroutines call Match on the same automaton at the same time.
InitConc == InitWith(ConcPatterns)

NextConc ==
    \/ Preprocess
    \/ Postfix
    \/ Nfa
    \/ \E self \in Procs : \E str \in ConcInputs : MatchBegin(self, str)
    \/ \E self \in Procs : MatchVisit(self)
    \/ \E self \in Procs : MatchAdvance(self)
    \/ \E self \in Procs : MatchFinish(self)

SpecConc == InitConc /\ [][NextConc]_vars

\* One goroutine compiles a pattern whose alternatives repeat the same
\* literal and then calls Match again and again, on short inputs.
InitRepeated == InitWith(RepeatedPatterns)

NextShort ==
    \/ Preprocess
    \/ Postfix
    \/ Nfa
    \/ \E str \in ShortInputs : MatchBegin(1, str)
    \/ MatchVisit(1)
    \/ MatchAdvance(1)
    \/ MatchFinish(1)

SpecRepeated == InitRepeated /\ [][NextShort]_vars

\* One goroutine compiles a pattern with groups, alternations and
\* concatenations and calls Match on short inputs.  A call of Match that has
\* begun keeps running: the loops of match take their next step as long as
\* there is one.
InitFair == InitWith(GroupPatterns \cup PrecedencePatterns \cup NestedPatterns)

SpecFair ==
    /\ InitFair /\ [][NextShort]_vars
    /\ WF_vars(MatchVisit(1) \/ MatchAdvance(1) \/ MatchFinish(1))


(***************************************************************************)
(* Reference definitions the claims are stated with.  They read the        *)
(* pattern itself, not the token or postfix streams.                       *)
(***************************************************************************)
\* Group-opens minus group-closes among the first i runes of p.
Depth(p, i) ==
    Cardinality({j \in 1..i : p[j] = opGroupStart})
    - Cardinality({j \in 1..i : p[j] = opGroupEnd})

\* The groups of p do not balance at the end of p.
GroupOpenAtEnd(p) == Depth(p, Len(p)) # 0

\* A group-close stands where no group is open.
CloseAtZero(p) == \E i \in 1..Len(p) : p[i] = opGroupEnd /\ Depth(p, i - 1) <= 0

\* An alternation is the first or last token of the pattern or of a group
\* body, or immediately follows another alternation.
OrMisplaced(p) ==
    \E i \in 1..Len(p) :
        /\ p[i] = opOr
        /\ \/ i = 1
           \/ i = Len(p)
           \/ p[i - 1] = opGroupStart
           \/ p[i - 1] = opOr
           \/ p[i + 1] = opGroupEnd

\* The position of the first alternation of p outside every group, 0 if none.
FirstTopOr(p) ==
    LET at == {i \in 1..Len(p) : p[i] = opOr /\ Depth(p, i - 1) = 0}
    IN  IF at = {} THEN 0 ELSE CHOOSE i \in at : \A j \in at : i <= j

\* For p that starts with a group-open: the position of the matching close.
CloseOf(p) ==
    CHOOSE i \in 1..Len(p) : Depth(p, i) = 0 /\ \A j \in 1..(i - 1) : Depth(p, j) > 0

\* s belongs to the regular language that the well-formed pattern p denotes:
\* an alternation denotes the union, a sequence of factors the concatenation,
\* a group what its body denotes, a literal the one-rune string.
RECURSIVE InLang(_, _)
InLang(p, s) ==
    LET or == FirstTopOr(p)
    IN  IF or > 0
        THEN \/ InLang(SubSeq(p, 1, or - 1), s)
             \/ InLang(SubSeq(p, or + 1, Len(p)), s)
        ELSE LET last == IF p[1] = opGroupStart THEN CloseOf(p) ELSE 1
                 rest == SubSeq(p, last + 1, Len(p))
                 InFactor(t) == IF p[1] = opGroupStart
                                THEN InLang(SubSeq(p, 2, last - 1), t)
                                ELSE t = <<p[1]>>
             IN  IF rest = <<>> THEN InFactor(s)
                 ELSE \E n \in 0..Len(s) :
                         /\ InFactor(SubSeq(s, 1, n))
                         /\ InLang(rest, SubSeq(s, n + 1, Len(s)))

\* Match has returned or panicked in goroutine self.
Returned(self) == m[self].pc = "done"
Panicked(self) == m[self].pc = "panic"
Accepted(self) == Returned(self) /\ m[self].result = "true"

(***************************************************************************)
(* The claims                                                              *)
(***************************************************************************)

\* C1: for every pattern that Compile accepts and every input s, Match
\* returns true if and only if s belongs to the language the pattern denotes.
C1_MatchIffInLanguage ==
    \A self \in Procs :
        Returned(self) =>
            (m[self].result = "true" <=> InLang(pattern, m[self].str))

\* C2: Match is total: on every compiled automaton and every input it
\* returns true or false and never panics.
C2_MatchNeverPanics ==
    \A self \in Procs : ~Panicked(self)

\* C3: Compile fails only with the group-mismatch or the alternation-misuse
\* error: once preprocess has accepted a pattern, postfix and nfa complete
\* without a pop or peek of an empty stack.
C3_CompileFailsOnlyAsDeclared ==
    stage = "failed" => err \in {ErrOrMisused, ErrGroupMismatch}

\* C4: Compile fails with "or misused" for every pattern in which an
\* alternation is the first or last token of the pattern or of a group body,
\* or immediately follows another alternation (patterns whose groups are
\* mismatched fall under C5).
C4_MisplacedOrIsReported ==
    (/\ stage \in {"compiled", "failed"}
     /\ OrMisplaced(pattern)
     /\ ~GroupOpenAtEnd(pattern)
     /\ ~CloseAtZero(pattern))
    => (stage = "failed" /\ err = ErrOrMisused)

\* C5: Compile fails with "group mismatch" for every pattern whose nesting
\* counter is non-zero at the end of the input, and for every pattern in
\* which a group-close is met while the counter is zero, whatever follows
\* (patterns with a misplaced alternation fall under C4).
C5_GroupMismatchIsReported ==
    (/\ stage \in {"compiled", "failed"}
     /\ GroupOpenAtEnd(pattern) \/ CloseAtZero(pattern)
     /\ ~OrMisplaced(pattern))
    => (stage = "failed" /\ err = ErrGroupMismatch)

\* C6: for every pattern x(A1|...|An)y with x, y and every Ai non-empty
\* strings of literals, Compile returns an automaton and Match is true
\* exactly when the input is x Ai y for some i; a(b|cd|ef)g matches abg,
\* acdg, aefg and rejects efg, aef, acd, ab, ef.
C6_GroupOfAlternatives ==
    \A c \in GroupCases :
        pattern = GroupPattern(c.x, c.alts, c.y) =>
            /\ stage # "failed"
            /\ \A self \in Procs :
                  (Returned(self) \/ Panicked(self)) =>
                      (Accepted(self) <=>
                          \E i \in 1..Len(c.alts) :
                              m[self].str = c.x \o c.alts[i] \o c.y)
            /\ \A self \in Procs :
                  (c = TestCase /\ Returned(self)) =>
                      /\ m[self].str \in { <<97, 98, 103>>, <<97, 99, 100, 103>>,
                                          <<97, 101, 102, 103>> }
                            => m[self].result = "true"
                      /\ m[self].str \in { <<101, 102, 103>>, <<97, 101, 102>>,
                                          <<97, 99, 100>>, <<97, 98>>, <<101, 102>> }
                            => m[self].result = "false"

\* a(b|cd|ef)g has been compiled and Match has returned true on acdg.
C6_Witness ==
    /\ pattern = GroupPattern(TestCase.x, TestCase.alts, TestCase.y)
    /\ Accepted(1)
    /\ m[1].str = <<97, 99, 100, 103>>

\* C7: concatenation binds tighter than alternation: for all literals x, y,
\* z the pattern xy|z is converted to the postfix stream x y & z | and its
\* automaton accepts exactly the strings xy and z.
C7_ConcatBindsTighter ==
    \A x, y, z \in {97, 98, 99} :
        pattern = <<x, y, opOr, z>> =>
            /\ stage # "failed"
            /\ stage \in {"postfixed", "compiled"} => post = <<x, y, opAnd, z, opOr>>
            /\ \A self \in Procs :
                  (Returned(self) \/ Panicked(self)) =>
                      (Accepted(self) <=> m[self].str \in { <<x, y>>, <<z>> })

\* ab|c has been compiled and Match has returned false on ac.
C7_Witness ==
    /\ pattern = <<97, 98, opOr, 99>>
    /\ Returned(1)
    /\ m[1].str = <<97, 99>>
    /\ m[1].result = "false"

\* C8: for every pattern that Compile accepts, Match on the empty input is
\* false: the closure-expansion of the start state, the initial active set,
\* never contains the match state.
C8_EmptyInputIsRejected ==
    \A self \in Procs :
        /\ (Returned(self) /\ m[self].str = <<>>) => m[self].result = "false"
        /\ (m[self].pc = "run" /\ m[self].pos = 1) =>
              \A k \in 1..m[self].currentStates.len :
                  LET state == elem(bufs[m[self].currentStates.buf], k)
                  IN  state # Nil /\ mem[state].kind # nfaStateKindMatch

\* A pattern with an alternation has been compiled and Match has returned
\* on the empty input.
C8_Witness ==
    /\ \E i \in 1..Len(pattern) : pattern[i] = opOr
    /\ Returned(1)
    /\ m[1].str = <<>>

\* C9: whatever the interleaving of the Match invocations that run at the
\* same time on one automaton, each gives the result it gives when it runs
\* alone: at every point, what an invocation has listed so far leads, run
\* on alone, to the outcome of match run alone from the start; and the
\* automaton stays the one nfa built.
C9_ConcurrentAsAlone ==
    /\ \A self \in Procs :
          m[self].pc # "idle" =>
              LET loc == matchRun(mem, bufs, self, m[self])
                  now == IF loc.pc = "panic" THEN "panic" ELSE loc.result
              IN  now = match(mem, start, m[self].str)
    /\ stage = "compiled" => (mem = nfa(post).mem /\ start = nfa(post).start)

\* Both invocations are in the middle of different inputs; the first has
\* listed states for its second rune.
C9_Witness ==
    /\ inVisit(m[1]) /\ m[1].pos = 2
    /\ inVisit(m[2]) /\ m[2].pos = 2
    /\ m[1].str # m[2].str
    /\ m[1].nextStates.len > 0

\* C10: Match leaves the automaton as Compile returned it: no step of any
\* Match call changes the kind, char, out1 or out2 of a state, or the start.
C10_MatchLeavesAutomaton ==
    [][stage = "compiled" => (mem' = mem /\ start' = start)]_vars

\* A Match call has returned true on an automaton with a split, and the
\* automaton is the one nfa built.
C10_Witness ==
    /\ stage = "compiled"
    /\ \E k \in 1..Len(mem) : mem[k].kind = nfaStateKindSplit
    /\ Accepted(1)
    /\ mem = nfa(post).mem

\* Compile(pattern) called once more: its states are allocated after those
\* of the first automaton.
CompiledAgain == nfaIn(mem, postfix(preprocess(pattern).out).out)

\* C11: determinism: Match calls with the same automaton and the same input
\* return the same result, whatever Match calls were made in between (one
\* goroutine keeps the result of its call while the other makes any calls
\* and then the same one); and the automaton got by compiling the same
\* pattern again gives, on the input of every call, the result of the call.
C11_Deterministic ==
    /\ \A p, q \in Procs :
          (Returned(p) /\ Returned(q) /\ m[p].str = m[q].str) =>
              m[p].result = m[q].result
    /\ \A self \in Procs :
          Returned(self) =>
              m[self].result = match(CompiledAgain.mem, CompiledAgain.start,
                                     m[self].str)

\* Both goroutines have returned true from Match on the same non-empty
\* input, on an automaton with a split.
C11_Witness ==
    /\ Accepted(1) /\ Accepted(2)
    /\ m[1].str = m[2].str
    /\ m[1].str # <<>>
    /\ \E k \in 1..Len(mem) : mem[k].kind = nfaStateKindSplit

\* The state that the inner loop of invocation self is about to visit.
Visited(self) == elem(bufs[m[self].currentStates.buf], m[self].idx)

\* C12: within one Match call, while a rune is processed, appending states
\* to the next set never changes an entry of the active set that has not
\* been read yet: every iteration of the inner loop leaves the entries of
\* currentStates from the next position on as they were.
C12_UnreadEntriesKept ==
    [][\A self \in Procs :
          (inVisit(m[self]) /\ m'[self].pc = "run" /\ m'[self].pos = m[self].pos) =>
              \A k \in m'[self].idx..m[self].currentStates.len :
                  elem(bufs'[m[self].currentStates.buf], k)
                      = elem(bufs[m[self].currentStates.buf], k)]_vars

\* C13: in a matching step only a char-consuming state whose value equals
\* the current rune is advanced along its edge; a match state in the active
\* set contributes nothing, whatever the rune: an iteration of the inner
\* loop that lists a state in nextStates, or fails doing so, visits a
\* char-consuming state with the value of the rune.
C13_OnlyCharStatesAdvance ==
    [][\A self \in Procs :
          (/\ inVisit(m[self])
           /\ m'[self] # m[self]
           /\ \/ m'[self].pc = "panic"
              \/ m'[self].nextStates # m[self].nextStates) =>
              /\ Visited(self) # Nil
              /\ mem[Visited(self)].kind = nfaStateKindChar
              /\ mem[Visited(self)].char = m[self].str[m[self].pos]]_vars

\* C14: at every step of Match the number of entries of the active set that
\* are visited is at most the number of states of the automaton: the inner
\* loop never visits an entry beyond that number.
C14_VisitsAtMostStates ==
    \A self \in Procs :
        inVisit(m[self]) => m[self].idx <= Len(mem)

\* C15: for every pattern that preprocess accepts, the empty pattern and
\* patterns with an empty group included, the fragment stack of nfa holds
\* exactly one fragment when the postfix string is exhausted, right before
\* the match state is created and wired: nfa reaches the end of the postfix
\* string of such a pattern, with one fragment on the stack.  Patterns with
\* a misplaced '|' or an unmatched ')' that preprocess lets through (C4, C5)
\* are left aside.
C15_OneFragmentLeft ==
    (/\ stage = "postfixed"
     /\ ~OrMisplaced(pattern) /\ ~CloseAtZero(pattern)) =>
        /\ nfaLoop(post, 1, [mem |-> <<>>, buf |-> <<>>, err |-> NoErr]).err = NoErr
        /\ nfa(post).frags = 1

\* The states that the out1 and out2 edges of state k lead to.
Successors(M, k) == {M[k].out1, M[k].out2} \ {Nil}

\* The states of M reachable from those of set, these included.
RECURSIVE ReachableFrom(_, _)
ReachableFrom(M, set) ==
    LET more == set \cup UNION {Successors(M, k) : k \in set}
    IN  IF more = set THEN set ELSE ReachableFrom(M, more)

\* The number of wired (non-nil) outgoing edges of state k.
Wired(M, k) ==
    (IF M[k].out1 # Nil THEN 1 ELSE 0) + (IF M[k].out2 # Nil THEN 1 ELSE 0)

\* C16: in every automaton that Compile returns, among the states reachable
\* from the start state, every char-consuming state has exactly one wired
\* outgoing edge, every split state exactly two, and there is exactly one
\* match state, with no outgoing edge; no edge is left dangling.
C16_WellWired ==
    stage = "compiled" =>
        LET R == ReachableFrom(mem, {start})
        IN  /\ \A k \in R :
                  /\ mem[k].kind = nfaStateKindChar =>
                        Wired(mem, k) = 1 /\ mem[k].out1 # Nil
                  /\ mem[k].kind = nfaStateKindSplit => Wired(mem, k) = 2
                  /\ mem[k].kind = nfaStateKindMatch => Wired(mem, k) = 0
            /\ Cardinality({k \in R : mem[k].kind = nfaStateKindMatch}) = 1
            /\ Cardinality({k \in 1..Len(mem) :
                               mem[k].kind = nfaStateKindMatch}) = 1

\* Compile has returned an automaton with two splits, where every state is
\* reachable from the start state.
C16_Witness ==
    /\ stage = "compiled"
    /\ Cardinality({k \in 1..Len(mem) : mem[k].kind = nfaStateKindSplit}) >= 2
    /\ ReachableFrom(mem, {start}) = 1..Len(mem)

\* A literal: any rune that is not a group delimiter or an alternation.
IsLiteral(char) == char \notin {opGroupStart, opGroupEnd, opOr}

\* Two adjacent runes that are implicitly concatenated.
Concatenated(left, right) ==
    /\ IsLiteral(left) \/ left = opGroupEnd
    /\ IsLiteral(right) \/ right = opGroupStart

\* The first i runes of p with a concatenation marker between every two
\* adjacent runes that are implicitly concatenated.
RECURSIVE Marked(_, _)
Marked(p, i) ==
    IF i = 0 THEN <<>>
    ELSE Marked(p, i - 1)
         \o (IF i > 1 /\ Concatenated(p[i - 1], p[i]) THEN <<opAnd>> ELSE <<>>)
         \o <<p[i]>>

\* C17: for every pattern that preprocess accepts, the string returned is
\* the pattern with a concatenation marker at exactly the positions between
\* two adjacent runes where the left one is a literal or a group-close and
\* the right one is a literal or a group-open: no marker elsewhere, no rune
\* of the pattern dropped or moved.
C17_MarkersWhereConcatenated ==
    stage = "preprocessed" => tokens = Marked(pattern, Len(pattern))

\* preprocess has returned for a(b|cd|ef)g, where markers go before the
\* group, after it and inside two alternatives, and nowhere else.
C17_Witness ==
    /\ stage = "preprocessed"
    /\ pattern = GroupPattern(TestCase.x, TestCase.alts, TestCase.y)
    /\ Len(tokens) = Len(pattern) + 4

\* An operand of a token stream: a rune that is no operator.
IsOperand(char) == ~isOperator(char)

\* A token stream with properly nested groups and well-placed binary
\* operators: every group-close has a matching earlier group-open, every
\* '&' and '|' stands between an operand or group-close and an operand or
\* group-open, and no two operands or groups stand side by side.
WellFormed(t) ==
    /\ \A i \in 1..Len(t) : Depth(t, i) >= 0
    /\ Depth(t, Len(t)) = 0
    /\ \A i \in 1..Len(t) :
          t[i] \in {opAnd, opOr} =>
              /\ 1 < i /\ i < Len(t)
              /\ IsOperand(t[i - 1]) \/ t[i - 1] = opGroupEnd
              /\ IsOperand(t[i + 1]) \/ t[i + 1] = opGroupStart
    /\ \A i \in 2..Len(t) :
          ~(/\ IsOperand(t[i - 1]) \/ t[i - 1] = opGroupEnd
            /\ IsOperand(t[i]) \/ t[i] = opGroupStart)

\* The positions of operator op in t that are in no group.
TopLevel(t, op) == {i \in 1..Len(t) : t[i] = op /\ Depth(t, i) = 0}

Last(set) == CHOOSE i \in set : \A j \in set : j <= i

\* The postfix form of t by a left-associative parse where '&' binds
\* tighter than '|': an alternation splits at its last '|' outside groups,
\* a concatenation at its last '&' outside groups, a group stands for its
\* body.
RECURSIVE ReferencePostfix(_)
ReferencePostfix(t) ==
    IF Len(t) <= 1 THEN t
    ELSE IF TopLevel(t, opOr) # {} THEN
        LET i == Last(TopLevel(t, opOr))
        IN  ReferencePostfix(SubSeq(t, 1, i - 1))
              \o ReferencePostfix(SubSeq(t, i + 1, Len(t))) \o <<opOr>>
    ELSE IF TopLevel(t, opAnd) # {} THEN
        LET i == Last(TopLevel(t, opAnd))
        IN  ReferencePostfix(SubSeq(t, 1, i - 1))
              \o ReferencePostfix(SubSeq(t, i + 1, Len(t))) \o <<opAnd>>
    ELSE ReferencePostfix(SubSeq(t, 2, Len(t) - 1))

Count(t, char) == Cardinality({i \in 1..Len(t) : t[i] = char})

\* C18: for every token stream with properly nested groups and well-placed
\* binary operators, postfix returns a string that holds no group delimiter,
\* holds the literals of the stream in their order, holds each '&' and '|'
\* of the stream once, and is the postfix form of the reference
\* left-associative parse where '&' binds tighter than '|'.
C18_PostfixOfReferenceParse ==
    /\ (stage = "preprocessed" /\ WellFormed(tokens)) =>
          postfix(tokens).err = NoErr
    /\ (stage = "postfixed" /\ WellFormed(tokens)) =>
          /\ Count(post, opGroupStart) = 0 /\ Count(post, opGroupEnd) = 0
          /\ SelectSeq(post, IsOperand) = SelectSeq(tokens, IsOperand)
          /\ Count(post, opAnd) = Count(tokens, opAnd)
          /\ Count(post, opOr) = Count(tokens, opOr)
          /\ post = ReferencePostfix(tokens)

\* postfix has returned for the well-formed token stream of a(a(b|c)|ad):
\* nested groups, alternations and concatenations.
C18_Witness ==
    /\ stage = "postfixed"
    /\ WellFormed(tokens)
    /\ pattern = <<97, 40, 97, 40, 98, 124, 99, 41, 124, 97, 100, 41>>
    /\ post = <<97, 97, 98, 99, 124, 38, 97, 100, 38, 124, 38>>

\* No state of M is reachable from itself through out1 and out2 edges.
Acyclic(M) ==
    \A k \in 1..Len(M) : k \notin ReachableFrom(M, Successors(M, k))

\* C19: every automaton that Compile returns is acyclic, so appendState
\* returns on every state of it and every call of Match on a finite input
\* ends.
C19_AcyclicSoMatchEnds ==
    /\ [](stage = "compiled" =>
            /\ Acyclic(mem)
            /\ \A k \in 1..Len(mem) :
                  appendState(mem, bufs, slice(NewBuf(1, 1), 0), k).err = NoErr)
    /\ (m[1].pc = "run") ~> (m[1].pc # "run")

\* A call of Match on one of the longest inputs has returned, on an
\* automaton with two splits.
C19_Witness ==
    /\ Returned(1)
    /\ Len(m[1].str) = MaxConcInputLen
    /\ Cardinality({k \in 1..Len(mem) : mem[k].kind = nfaStateKindSplit}) >= 2
    /\ Acyclic(mem)

=============================================================================
